---- MODULE Spec2Model ----
(***************************************************************************)
(* Tic-tac-toe against a minimax opponent (src/src/main.rs).               *)
(*                                                                         *)
(* The board is one value that main owns and that minimax and              *)
(* computer_turn_minimax mutate in place.  The search functions are        *)
(* modelled as operators that take the board and hand back the board as    *)
(* the callee left it, so that a missing undo shows in the result.         *)
(***************************************************************************)
EXTENDS Integers, FiniteSets, Sequences, TLC

\* ---------------------------------------------------------------- bounds
\* Largest number of Empty cells of a board drawn as a direct input of
\* minimax / computer_turn_minimax in SearchSpec.
MaxEmpty == 3
\* Largest depth argument drawn as a direct input of minimax in SearchSpec.
MaxDepth == 3

\* ------------------------------------------------------- program values
Cells == 0..8
Empty == " "
PlayerX == "Player::X"
PlayerO == "Player::O"
Player == {PlayerX, PlayerO}
None == "None"
\* Option<usize>: None is the empty sequence, Some(i) is <<i>>
NoMove == <<>>
Some(i) == <<i>>
I32_MIN == -2147483647 - 1
I32_MAX == 2147483647

toggle(p) == IF p = PlayerX THEN PlayerO ELSE PlayerX

as_char(p) == IF p = PlayerX THEN "X" ELSE "O"

Marks == {as_char(p) : p \in Player}

EmptyBoard == [i \in Cells |-> Empty]

EmptyCells(b) == {i \in Cells : b[i] = Empty}

\* --------------------------------------------------- Board/Outcome model
check_line(b, player, a, bb, c) == b[a] = player /\ b[bb] = player /\ b[c] = player

\* the body of check_winner's loop for one player, the row and col loops unrolled
has_line(b, player_char) ==
    \/ check_line(b, player_char, 0, 1, 2)   \* row 0
    \/ check_line(b, player_char, 3, 4, 5)   \* row 1
    \/ check_line(b, player_char, 6, 7, 8)   \* row 2
    \/ check_line(b, player_char, 0, 3, 6)   \* col 0
    \/ check_line(b, player_char, 1, 4, 7)   \* col 1
    \/ check_line(b, player_char, 2, 5, 8)   \* col 2
    \/ check_line(b, player_char, 0, 4, 8)
    \/ check_line(b, player_char, 2, 4, 6)

check_winner(b) ==
    IF has_line(b, as_char(PlayerX)) THEN PlayerX
    ELSE IF has_line(b, as_char(PlayerO)) THEN PlayerO
    ELSE None

\* evaluate_board with the two scores exchanged (C9 and C10 fail with it)
evaluate_board_swapped(b, computer_player, human_player) ==
    LET w == check_winner(b) IN
    IF w = computer_player THEN -1
    ELSE IF w = human_player THEN 1
    ELSE 0

evaluate_board(b, computer_player, human_player) ==
    LET w == check_winner(b) IN
    IF w = computer_player THEN 1
    ELSE IF w = human_player THEN -1
    ELSE 0

is_board_full(b) == \A i \in Cells : b[i] # Empty

\* i32::max
max(a, b) == IF a >= b THEN a ELSE b

\* i32::max where the minimizing loop needs i32::min (C1 fails with it)
min_as_max(a, b) == IF a >= b THEN a ELSE b

\* i32::min
min(a, b) == IF a <= b THEN a ELSE b

\* board[i] = player.as_char()
place(b, i, p) == [b EXCEPT ![i] = as_char(p)]

\* the undo of minimax left out (C2 fails with it)
undo_skipped(b, i) == b

\* board[i] = ' ' after the recursive call of minimax
undo(b, i) == [b EXCEPT ![i] = Empty]

\* the undo of the scan left out (C3 fails with it)
undo_scan_skipped(b, i) == b

\* board[i] = ' ' after the call of minimax in computer_turn_minimax
undo_scan(b, i) == [b EXCEPT ![i] = Empty]

\* a seed two plies short of the empty board (C8 fails with it)
seed_depth_short == 9 - 2

\* the depth computer_turn_minimax passes to minimax
seed_depth == 9

\* ------------------------------------------------------------- minimax
\* A call returns [score, board, truncated, nested_ok]:
\*   board      the board as the call leaves it,
\*   truncated  some call of the subtree took the base case on a board with
\*              no winner and an Empty cell (only depth = 0 can do that),
\*   nested_ok  every nested call of the subtree left its board as it got it.
RECURSIVE minimax(_, _, _, _, _)
RECURSIVE minimax_max_loop(_, _, _, _, _, _, _, _)
RECURSIVE minimax_min_loop(_, _, _, _, _, _, _, _)

minimax_max_loop(b, i, best_score, depth, computer_player, human_player, tr, ok) ==
    IF i = 9 THEN [score |-> best_score, board |-> b, truncated |-> tr, nested_ok |-> ok]
    ELSE IF b[i] = Empty THEN
        LET placed == place(b, i, computer_player)
            r == minimax(placed, depth - 1, FALSE, computer_player, human_player)
        IN minimax_max_loop(undo(r.board, i), i + 1, max(best_score, r.score), depth,
                            computer_player, human_player,
                            tr \/ r.truncated, ok /\ r.nested_ok /\ r.board = placed)
    ELSE minimax_max_loop(b, i + 1, best_score, depth, computer_player, human_player, tr, ok)

minimax_min_loop(b, i, best_score, depth, computer_player, human_player, tr, ok) ==
    IF i = 9 THEN [score |-> best_score, board |-> b, truncated |-> tr, nested_ok |-> ok]
    ELSE IF b[i] = Empty THEN
        LET placed == place(b, i, human_player)
            r == minimax(placed, depth - 1, TRUE, computer_player, human_player)
        IN minimax_min_loop(undo(r.board, i), i + 1, min(best_score, r.score), depth,
                            computer_player, human_player,
                            tr \/ r.truncated, ok /\ r.nested_ok /\ r.board = placed)
    ELSE minimax_min_loop(b, i + 1, best_score, depth, computer_player, human_player, tr, ok)

minimax(b, depth, is_maximizing, computer_player, human_player) ==
    LET score == evaluate_board(b, computer_player, human_player) IN
    IF score # 0 \/ depth = 0 \/ is_board_full(b)
    THEN [score |-> score, board |-> b,
          truncated |-> (depth = 0 /\ score = 0 /\ ~is_board_full(b)), nested_ok |-> TRUE]
    ELSE IF is_maximizing
         THEN minimax_max_loop(b, 0, I32_MIN, depth, computer_player, human_player, FALSE, TRUE)
         ELSE minimax_min_loop(b, 0, I32_MAX, depth, computer_player, human_player, FALSE, TRUE)

\* --------------------------------------------------- computer_turn_minimax
\* >= where the scan needs > (C4 fails with it)
better_or_equal(score, best_score) == score >= best_score

\* if score > best_score
better(score, best_score) == score > best_score

\* the commit made with the human's mark (C5 fails with it)
commit_human_mark(b, best_move, computer_player) ==
    IF best_move # NoMove THEN place(b, best_move[1], toggle(computer_player)) ELSE b

\* if let Some(move_index) = best_move { board[move_index] = computer_player.as_char(); }
commit(b, best_move, computer_player) ==
    IF best_move # NoMove THEN place(b, best_move[1], computer_player) ELSE b

RECURSIVE turn_loop(_, _, _, _, _, _, _, _)
turn_loop(b, i, best_score, best_move, computer_player, human_player, tr, ok) ==
    IF i = 9 THEN [board |-> b, best_move |-> best_move, best_score |-> best_score,
                   truncated |-> tr, nested_ok |-> ok]
    ELSE IF b[i] = Empty THEN
        LET placed == place(b, i, computer_player)
            r == minimax(placed, seed_depth, FALSE, computer_player, human_player)
            take == better(r.score, best_score)
        IN turn_loop(undo_scan(r.board, i), i + 1,
                     IF take THEN r.score ELSE best_score,
                     IF take THEN Some(i) ELSE best_move,
                     computer_player, human_player,
                     tr \/ r.truncated, ok /\ r.nested_ok /\ r.board = placed)
    ELSE turn_loop(b, i + 1, best_score, best_move, computer_player, human_player, tr, ok)

computer_turn_minimax(b, computer_player, human_player) ==
    LET s == turn_loop(b, 0, I32_MIN, NoMove, computer_player, human_player, FALSE, TRUE)
    IN [board |-> commit(s.board, s.best_move, computer_player),
        best_move |-> s.best_move, best_score |-> s.best_score,
        truncated |-> s.truncated, nested_ok |-> s.nested_ok]

\* ------------------------------------------------------------------ state
VARIABLES
    board,            \* main: board
    human_player,     \* main: human_player
    computer_player,  \* main: computer_player
    current_player,   \* main: current_player
    pc,               \* where the program is
    entry,            \* the board as the last search call received it
    depth,            \* depth argument of the last direct minimax call
    is_maximizing,    \* is_maximizing argument of the last direct minimax call
    ret,              \* what the last search call returned
    marks             \* number of marks main has committed

vars == <<board, human_player, computer_player, current_player, pc,
          entry, depth, is_maximizing, ret, marks>>

NoRet == [score |-> 0, best_move |-> NoMove, truncated |-> FALSE, nested_ok |-> TRUE]

\* ------------------------------------------------------------- game loop
\* the exit test without the winner branch (C7 fails with it)
game_over_full_only(b) == \A i \in Cells : b[i] # Empty

\* the exit test without the full-board branch (C6 fails with it)
game_over_no_tie(b) == check_winner(b) # None

\* if let Some(winner) = check_winner(&board) { break } else if board full { break }
game_over(b) == check_winner(b) # None \/ \A i \in Cells : b[i] # Empty

Init ==
    /\ board = EmptyBoard
    /\ human_player \in Player
    /\ computer_player = toggle(human_player)
    /\ current_player = PlayerX
    /\ pc = "start"
    /\ entry = EmptyBoard
    /\ depth = seed_depth
    /\ is_maximizing = FALSE
    /\ ret = NoRet
    /\ marks = 0

RetOf(r) == [score |-> r.best_score, best_move |-> r.best_move,
             truncated |-> r.truncated, nested_ok |-> r.nested_ok]

\* main, lines 38-41: the computer opens when the human is O
OpeningMove ==
    /\ pc = "start"
    /\ IF human_player = PlayerO
       THEN \E r \in {computer_turn_minimax(board, computer_player, human_player)} :
            /\ board' = r.board
            /\ entry' = board
            /\ ret' = RetOf(r)
            /\ marks' = marks + (IF r.best_move # NoMove THEN 1 ELSE 0)
            /\ current_player' = toggle(current_player)
       ELSE UNCHANGED <<board, entry, ret, marks, current_player>>
    /\ pc' = "loop"
    /\ UNCHANGED <<human_player, computer_player, depth, is_maximizing>>

\* one iteration of the loop with current_player == human_player
HumanTurn ==
    /\ pc = "loop"
    /\ current_player = human_player
    /\ \E choice \in Cells :
         /\ board[choice] = Empty
         /\ board' = place(board, choice, current_player)
    /\ marks' = marks + 1
    /\ IF game_over(board')
       THEN pc' = "done" /\ UNCHANGED current_player
       ELSE pc' = "loop" /\ current_player' = toggle(current_player)
    /\ UNCHANGED <<human_player, computer_player, entry, depth, is_maximizing, ret>>

\* one iteration of the loop with current_player != human_player
ComputerTurn ==
    /\ pc = "loop"
    /\ current_player # human_player
    /\ \E r \in {computer_turn_minimax(board, computer_player, human_player)} :
         /\ board' = r.board
         /\ entry' = board
         /\ ret' = RetOf(r)
         /\ marks' = marks + (IF r.best_move # NoMove THEN 1 ELSE 0)
    /\ IF game_over(board')
       THEN pc' = "done" /\ UNCHANGED current_player
       ELSE pc' = "loop" /\ current_player' = toggle(current_player)
    /\ UNCHANGED <<human_player, computer_player, depth, is_maximizing>>

Next == OpeningMove \/ HumanTurn \/ ComputerTurn

Spec == Init /\ [][Next]_vars

\* ENABLED <<Next>>_vars, written out from the guards of the three actions:
\* the opening step and a computer iteration can always run (each changes pc
\* or current_player), a human iteration needs an Empty cell to choose.
CanStep ==
    \/ pc = "start"
    \/ pc = "loop" /\ (current_player = human_player => EmptyCells(board) # {})

\* Weak fairness of Next.  WF_vars(Next) is
\*     []<>(~ENABLED <<Next>>_vars) \/ []<><<Next>>_vars
\* and it is written here with CanStep for the ENABLED and with <<TRUE>>_vars
\* for <<Next>>_vars: under Spec every step that changes vars is a Next step.
\* main is a single thread that runs its loop without suspension; the only
\* wait is get_player_choice, which returns once the human supplies a legal
\* move.
FairSpec == Spec /\ ([]<>(~CanStep) \/ []<><<TRUE>>_vars)

\* ------------------------------------------- direct calls of the search
\* Boards handed directly to minimax and computer_turn_minimax: every
\* arrangement of marks with at most MaxEmpty Empty cells, and the worked
\* position of the documentation (X on 0 and 1, O on 3 and 4).
Scenario == [i \in Cells |-> IF i \in {0, 1} THEN "X" ELSE IF i \in {3, 4} THEN "O" ELSE Empty]

InputBoards ==
    {b \in [Cells -> Marks \cup {Empty}] : Cardinality(EmptyCells(b)) <= MaxEmpty}
        \cup {Scenario}

\* depth is an i32: a negative value never meets depth == 0
Depths == -1..MaxDepth

SearchInit ==
    /\ board \in InputBoards
    /\ human_player \in Player
    /\ computer_player = toggle(human_player)
    /\ current_player = PlayerX
    /\ pc = "input"
    /\ entry = board
    /\ depth = seed_depth
    /\ is_maximizing = FALSE
    /\ ret = NoRet
    /\ marks = 0

\* minimax(&mut board, d, m, computer_player, human_player)
CallMinimax ==
    /\ pc = "input"
    /\ \E d \in Depths, m \in BOOLEAN :
         \E r \in {minimax(board, d, m, computer_player, human_player)} :
           /\ board' = r.board
           /\ depth' = d
           /\ is_maximizing' = m
           /\ ret' = [score |-> r.score, best_move |-> NoMove,
                      truncated |-> r.truncated, nested_ok |-> r.nested_ok]
    /\ entry' = board
    /\ pc' = "minimax_ret"
    /\ UNCHANGED <<human_player, computer_player, current_player, marks>>

\* computer_turn_minimax(&mut board, computer_player, human_player)
CallComputerTurn ==
    /\ pc = "input"
    /\ \E r \in {computer_turn_minimax(board, computer_player, human_player)} :
         /\ board' = r.board
         /\ ret' = RetOf(r)
    /\ entry' = board
    /\ pc' = "turn_ret"
    /\ UNCHANGED <<human_player, computer_player, current_player, marks,
                   depth, is_maximizing>>

SearchNext == CallMinimax \/ CallComputerTurn

SearchSpec == SearchInit /\ [][SearchNext]_vars

\* ------------------------------------------------------------ properties
Count(b, ch) == Cardinality({i \in Cells : b[i] = ch})

Draw(b) == check_winner(b) = None /\ is_board_full(b)

\* the score computer_turn_minimax gives cell i of board b
ScoreOf(b, i, cp, hp) == minimax(place(b, i, cp), 9, FALSE, cp, hp).score

\* the lowest-index Empty cell of b whose score is the maximum over the Empty cells
FirstBest(b, cp, hp) ==
    LET cand == EmptyCells(b)
        sc == [i \in cand |-> ScoreOf(b, i, cp, hp)]
        top == {i \in cand : \A j \in cand : sc[j] <= sc[i]}
    IN CHOOSE i \in top : \A j \in top : i <= j

\* the Empty cells of b that complete three-in-a-row for cp
Completing(b, cp) == {i \in EmptyCells(b) : check_winner(place(b, i, cp)) = cp}

\* the mark counts of b say it is cp's turn when X moves first
ToMove(b, cp) ==
    IF cp = PlayerX THEN Count(b, "X") = Count(b, "O")
    ELSE Count(b, "X") = Count(b, "O") + 1

\* C1: when the computer is X and opens on the empty board, no state of the
\* game has the human as check_winner's result, and a finished game is a draw
\* or a computer win.
C1_ComputerFirstNeverLoses ==
    human_player = PlayerO =>
        /\ check_winner(board) # human_player
        /\ pc = "done" => (check_winner(board) = computer_player \/ Draw(board))

C1_Witness == pc = "done" /\ human_player = PlayerO /\ Draw(board) /\ marks = 9

\* C2: a direct call of minimax returns with the board cell for cell as it
\* received it, and so does every recursive call made below it.
C2_MinimaxRestoresBoard ==
    pc = "minimax_ret" => (board = entry /\ ret.nested_ok)

C2_Witness ==
    /\ pc = "minimax_ret"
    /\ Cardinality(EmptyCells(entry)) >= 2
    /\ depth >= 2
    /\ check_winner(entry) = None
    /\ board = entry

\* C3: on a board with an Empty cell, computer_turn_minimax changes exactly
\* one cell, from Empty to the computer's mark.
C3_TurnChangesOneCell ==
    (pc = "turn_ret" /\ EmptyCells(entry) # {}) =>
        LET changed == {i \in Cells : board[i] # entry[i]} IN
        /\ Cardinality(changed) = 1
        /\ \A i \in changed : entry[i] = Empty /\ board[i] = as_char(computer_player)

C3_Witness ==
    /\ pc = "turn_ret"
    /\ Cardinality(EmptyCells(entry)) >= 2
    /\ Cardinality(EmptyCells(board)) = Cardinality(EmptyCells(entry)) - 1

\* C4: the cell computer_turn_minimax commits is the lowest-index Empty cell
\* whose score minimax(board with the computer's mark there, 9, false) is the
\* maximum over the Empty cells.
C4_FirstMaxCommitted ==
    (pc = "turn_ret" /\ EmptyCells(entry) # {}) =>
        LET first == FirstBest(entry, computer_player, human_player) IN
        /\ ret.best_move = Some(first)
        /\ board = place(entry, first, computer_player)

C4_Witness ==
    /\ pc = "turn_ret"
    /\ \E i, j \in EmptyCells(entry) :
         /\ i < j
         /\ ret.best_move = Some(i)
         /\ ScoreOf(entry, j, computer_player, human_player) = ret.score

\* C5: from the empty board with computer = X, the computer's move leaves
\* exactly one X, on a corner or the center, and 8 Empty cells.
C5_OpeningMove ==
    (computer_player = PlayerX /\ marks = 1) =>
        /\ Count(board, "X") = 1
        /\ Count(board, Empty) = 8
        /\ \E i \in {0, 2, 4, 6, 8} : board[i] = "X"

C5_Witness ==
    computer_player = PlayerX /\ marks = 1 /\ entry = EmptyBoard /\ Count(board, "X") = 1

\* C6: every game ends: the loop reaches a state with a winner or a full
\* board after at most 9 committed marks, it does not run past the first
\* such state, and no mark is committed afterwards.
C6_GameTerminates ==
    /\ <>(pc = "done")
    /\ [](marks <= 9 /\ marks = 9 - Count(board, Empty))
    /\ [](pc = "done" <=> (check_winner(board) # None \/ is_board_full(board)))
    /\ [][pc = "done" => board' = board]_vars

C6_Witness == pc = "done" /\ marks = 9 /\ is_board_full(board)

\* check_winner with the two players tried in the other order
check_winner_O_first(b) ==
    IF has_line(b, as_char(PlayerO)) THEN PlayerO
    ELSE IF has_line(b, as_char(PlayerX)) THEN PlayerX
    ELSE None

\* C7: no position of the game has three-in-a-row for both players, so
\* check_winner gives the same result whichever player it tries first.
C7_OneWinnerAtMost ==
    /\ ~(has_line(board, "X") /\ has_line(board, "O"))
    /\ check_winner(board) = check_winner_O_first(board)

C7_Witness == pc = "done" /\ check_winner(board) = PlayerO

\* C8: below computer_turn_minimax no call of minimax has depth 0 on a board
\* with no winner and an Empty cell.
C8_DepthNeverCutsOff == ~ret.truncated

C8_Witness ==
    /\ entry = EmptyBoard
    /\ ret.best_move # NoMove
    /\ ~ret.truncated

\* C9: when the human is X and moves first, no state of the game has the
\* human as check_winner's result.
C9_HumanFirstNeverWins ==
    human_player = PlayerX => check_winner(board) # human_player

C9_Witness ==
    pc = "done" /\ human_player = PlayerX /\ check_winner(board) = computer_player

\* the case of C10: no winner, the computer to move, an Empty cell completes
\* three-in-a-row for the computer, and computer_turn_minimax has run
WinAvailable ==
    /\ pc = "turn_ret"
    /\ check_winner(entry) = None
    /\ ToMove(entry, computer_player)
    /\ Completing(entry, computer_player) # {}

\* C10 as stated: whenever an Empty cell completes three-in-a-row for the
\* computer, the committed move makes check_winner return the computer.
C10_Original == WinAvailable => check_winner(board) = computer_player

\* C10 amended: the committed cell is the lowest-index Empty cell of score +1;
\* the win is immediate when no Empty cell below the first completing one
\* scores +1, as in the worked position where cell 2 is taken.
C10_TakesFirstWinningCell ==
    WinAvailable =>
        LET first == FirstBest(entry, computer_player, human_player)
            w == CHOOSE i \in Completing(entry, computer_player) :
                     \A j \in Completing(entry, computer_player) : i <= j
        IN
        /\ ret.score = 1
        /\ ret.best_move = Some(first)
        /\ (\A j \in EmptyCells(entry) :
               j < w => ScoreOf(entry, j, computer_player, human_player) < 1)
             => (first = w /\ check_winner(board) = computer_player)
        /\ (entry = Scenario /\ computer_player = PlayerX)
             => (ret.best_move = Some(2) /\ check_winner(board) = PlayerX)

C10_Witness ==
    /\ WinAvailable
    /\ entry = Scenario
    /\ computer_player = PlayerX
    /\ check_winner(board) = PlayerX
====
